---- MODULE Spec2Model ----
(***************************************************************************)
(* CryptoNova portfolio analytics (src/src/components/PortfolioAnalytics   *)
(* .tsx) over the portfolio context (src/src/contexts/AuthContext.tsx).    *)
(*                                                                         *)
(* Numbers.  Prices and amounts are integers.  Every current price and     *)
(* every model price of the value domains below is a multiple of 3, so the *)
(* code's division by 3 in calculatePredictedPortfolioValue is exact and   *)
(* is written \div 3.  The code's floating-point comparisons               *)
(*   (a / b) > 0.6     and     (f - c) / c * 100 > 20  (resp. < -15)       *)
(* are written cross-multiplied; on integer operands of this size the two  *)
(* forms agree (the quotients 3/5, 1/5, 3/20 round to the literals).       *)
(* Every purchase price of the value domains divides 100 x |current price  *)
(* - purchase price|, and the quotients are multiples of 25, so the        *)
(* relative price changes of calculateRiskLevel (0, 1/4, 1/2) and their    *)
(* sums are exact in floating point; they are carried in percent.          *)
(* totalGainLossPercentage, the one number that is not an integer, is the  *)
(* pair <<numerator, denominator>> of the fraction in lowest terms.        *)
(*                                                                         *)
(* Optional values (a JS value that may be undefined or null) are          *)
(* sequences of length 0 or 1: <<>> is undefined/null, <<v>> is v.         *)
(***************************************************************************)
EXTENDS Integers, Sequences, FiniteSets, TLC

VARIABLES
    portfolio,             \* usePortfolio().portfolio
    predictions,           \* useState predictions: entries in key insertion order
    isLoadingPredictions,  \* useState isLoadingPredictions
    reportData,            \* useState reportData: <<>> is null
    selectedTimeframe,     \* useState selectedTimeframe
    passes,                \* fetchPredictions calls in flight, in start order
    started,               \* number of fetchPredictions passes started so far
    results,               \* `results` of the pass that completed last (line 99)
    service,               \* the Asset Forecast Service: its request and its reply
    captured,              \* the portfolio in the closure of the updateAsset callback
                           \* a caller holds (no page calls it: the variable matters
                           \* in SpecUpdate only)
    page,                  \* the Predictions page: its state, its calls in flight
    auth,                  \* AuthProvider: its state, localStorage, its calls in flight
    effectDeps,            \* the effect on [portfolio.assets.length]: the length it
                           \* has last run with, and the render whose effect is due
    rendered               \* the render of PortfolioAnalytics that is committed: the
                           \* values its handlers, its buttons and its effect read

vars == <<portfolio, predictions, isLoadingPredictions, reportData,
          selectedTimeframe, passes, started, results, service, captured,
          page, auth, effectDeps, rendered>>

-----------------------------------------------------------------------------
(* Bounds and value domains *)

MaxAssets == 3       \* longest portfolio of the single-pass specification
MaxHeld == 4         \* longest portfolio of the report specification
MaxLoaded == 2       \* longest portfolio the backend delivers in Spec
MaxPasses == 2       \* fetchPredictions passes started in one behaviour of Spec
MaxPositions == 6    \* longest portfolio of the analytics specification
MaxHorizon == 4      \* longest horizon asked of the forecast service
MaxChecks == 2       \* health and model-status calls of the Predictions page in flight
MaxCalls == 2        \* login and register calls made in one behaviour
MaxRefreshed == 1    \* longest portfolio of the refresh specification

DefaultTimeframe == 7

Symbols == {"BTC", "ETH"}

\* ticker symbols an asset or the coin selector can carry: the keys of the two
\* symbol maps, a ticker in neither map, and a lower-case symbol
Tickers ==
    {"BTC", "ETH", "ADA", "SOL", "DOT", "LINK", "LTC", "XRP", "MATIC", "AVAX",
     "UNI", "ATOM", "DOGE", "doge"}
Amounts == {1, 3}
Timeframes == {1, 7, 14, 30, 90}

\* market price per ticker: holdings of one ticker carry the same price
MarketPrice == [s \in Tickers |-> IF s = "BTC" THEN 60 ELSE 120]
PurchasePrice == [s \in Tickers |-> IF s = "BTC" THEN 60 ELSE 96]

\* CryptoAsset as the backend delivers it; ids are the positions in the list
Asset(i, s, a) ==
    [id |-> i, symbol |-> s, amount |-> a,
     purchasePrice |-> PurchasePrice[s], currentPrice |-> MarketPrice[s]]

Holdings == Symbols \X Amounts

RECURSIVE SeqsUpTo(_, _)
SeqsUpTo(S, n) ==
    IF n = 0 THEN {<<>>}
    ELSE LET shorter == SeqsUpTo(S, n - 1)
         IN  shorter \cup {Append(q, x) : q \in {r \in shorter : Len(r) = n - 1}, x \in S}

ListsOf(H, n) ==
    {[i \in 1..Len(h) |-> Asset(i, h[i][1], h[i][2])] : h \in SeqsUpTo(H, n)}

AssetLists(n) == ListsOf(Holdings, n)

\* the portfolios the backend delivers in Spec
LoadedLists == ListsOf({<<"BTC", 3>>, <<"ETH", 1>>}, MaxLoaded)

\* positions <<ticker, purchase price>> of the analytics specification: bought
\* at half, two thirds, all and four thirds of the market price of BTC, and
\* ETH bought at four fifths of its market price
TrackedPositions ==
    {<<"BTC", 30>>, <<"BTC", 40>>, <<"BTC", 60>>, <<"BTC", 80>>, <<"ETH", 96>>}

Position(i, s, p) == [Asset(i, s, 1) EXCEPT !.purchasePrice = p]

TrackedLists ==
    {[i \in 1..Len(h) |-> Position(i, h[i][1], h[i][2])] :
        h \in SeqsUpTo(TrackedPositions, MaxPositions)}

\* POST /predict response bodies (PredictionData): each model price is optional
ModelPrices ==
    {[lstm |-> <<90>>, random_forest |-> <<120>>, linear_regression |-> <<90>>],
     [lstm |-> <<>>,   random_forest |-> <<120>>, linear_regression |-> <<90>>],
     [lstm |-> <<>>,   random_forest |-> <<>>,    linear_regression |-> <<90>>],
     [lstm |-> <<>>,   random_forest |-> <<>>,    linear_regression |-> <<>>]}
AllModels == [lstm |-> <<90>>, random_forest |-> <<120>>, linear_regression |-> <<90>>]

\* final prices around the +20% and -15% thresholds of both market prices
FinalPrices == {50, 51, 60, 72, 73, 102, 144, 145}
FuturePaths == {<<>>} \cup {<<f>> : f \in FinalPrices} \cup {<<73, f>> : f \in {50, 60}}

Responses ==
    {[predictions |-> m, future_predictions |-> <<60, 73>>] : m \in ModelPrices}
    \cup {[predictions |-> AllModels, future_predictions |-> p] : p \in FuturePaths}

\* the response the backend gives in Spec
RisingForecast == [predictions |-> AllModels, future_predictions |-> <<73>>]

\* the responses the backend gives in the single-pass specification
PassResponses ==
    {[predictions |-> AllModels, future_predictions |-> <<73>>],
     [predictions |-> [lstm |-> <<>>, random_forest |-> <<120>>, linear_regression |-> <<90>>],
      future_predictions |-> <<>>]}

-----------------------------------------------------------------------------
(* Portfolio totals *)

RECURSIVE SumOver(_, _)
\* seq.reduce((sum, x) => sum + f(x), 0)
SumOver(f(_), seq) ==
    IF seq = <<>> THEN 0 ELSE SumOver(f, SubSeq(seq, 1, Len(seq) - 1)) + f(seq[Len(seq)])

AssetCost(asset) == asset.amount * asset.purchasePrice
AssetValue(asset) == asset.amount * asset.currentPrice

Abs(x) == IF x < 0 THEN 0 - x ELSE x

RECURSIVE GCD(_, _)
GCD(a, b) == IF b = 0 THEN a ELSE GCD(b, a % b)

\* the number num / den (den > 0) as a fraction in lowest terms
Ratio(num, den) ==
    LET g == GCD(Abs(num), den)
    IN  <<num \div g, den \div g>>

\* slip: the gain related to the current value
GainLossPercentageOfValue(totalGainLoss, totalCost) ==
    IF totalCost + totalGainLoss > 0
    THEN Ratio(totalGainLoss * 100, totalCost + totalGainLoss)
    ELSE Ratio(0, 1)

\* totalCost > 0 ? (totalGainLoss / totalCost) * 100 : 0
GainLossPercentage(totalGainLoss, totalCost) ==
    IF totalCost > 0 THEN Ratio(totalGainLoss * 100, totalCost) ELSE Ratio(0, 1)

\* the Portfolio record: totals derived from the asset list
PortfolioOf(assets) ==
    LET totalCost == SumOver(AssetCost, assets)
        totalValue == SumOver(AssetValue, assets)
    IN  [assets |-> assets, totalValue |-> totalValue, totalCost |-> totalCost,
         totalGainLoss |-> totalValue - totalCost,
         totalGainLossPercentage |-> GainLossPercentage(totalValue - totalCost, totalCost)]

EmptyPortfolio ==
    [assets |-> <<>>, totalValue |-> 0, totalCost |-> 0, totalGainLoss |-> 0,
     totalGainLossPercentage |-> <<0, 1>>]

-----------------------------------------------------------------------------
(* The predictions object: entries <<key, value>> in insertion order *)

HasKey(obj, k) == \E i \in 1..Len(obj) : obj[i][1] = k

\* obj[k]: <<>> when the key is missing
Get(obj, k) ==
    IF HasKey(obj, k)
    THEN <<obj[CHOOSE i \in 1..Len(obj) : obj[i][1] = k][2]>>
    ELSE <<>>

\* obj[k] = v: an existing key keeps its position, a new key goes last
Put(obj, k, v) ==
    IF HasKey(obj, k)
    THEN [i \in 1..Len(obj) |-> IF obj[i][1] = k THEN <<k, v>> ELSE obj[i]]
    ELSE Append(obj, <<k, v>>)

\* slip: one entry per answered request, as if newPredictions were a list
newPredictionsPerAsset(res) ==
    LET answered(r) == r.data # <<>>
        ok == SelectSeq(res, answered)
    IN  [i \in 1..Len(ok) |-> <<ok[i].symbol, ok[i].data[1]>>]

RECURSIVE newPredictionsOf(_)
\* results.forEach(({symbol, data}) => { if (data) newPredictions[symbol] = data })
newPredictionsOf(res) ==
    IF res = <<>> THEN <<>>
    ELSE LET before == newPredictionsOf(SubSeq(res, 1, Len(res) - 1))
             last == res[Len(res)]
         IN  IF last.data # <<>> THEN Put(before, last.symbol, last.data[1]) ELSE before

-----------------------------------------------------------------------------
(* generatePortfolioReport and the functions it calls *)

\* x || d  for an optional number: undefined and 0 are falsy
OrElse(x, d) == IF x = <<>> \/ x[1] = 0 THEN d ELSE x[1]

\* avgPrediction of one asset with a prediction
avgPrediction(prediction, asset) ==
    (OrElse(prediction.predictions.lstm, asset.currentPrice)
     + OrElse(prediction.predictions.random_forest, asset.currentPrice)
     + OrElse(prediction.predictions.linear_regression, asset.currentPrice)) \div 3

\* the value one asset adds to the total in the reduce
PredictedAssetValue(asset, predictionData) ==
    LET prediction == Get(predictionData, asset.symbol)
    IN  IF prediction # <<>>
        THEN asset.amount * avgPrediction(prediction[1], asset)
        ELSE asset.amount * asset.currentPrice

calculatePredictedPortfolioValue(pf, predictionData) ==
    LET add(asset) == PredictedAssetValue(asset, predictionData)
    IN  SumOver(add, pf.assets)

\* Math.abs((currentPrice - purchasePrice) / purchasePrice), in percent
priceChange(asset) ==
    (Abs(asset.currentPrice - asset.purchasePrice) * 100) \div asset.purchasePrice

\* slip: the thresholds compared with >=
calculateRiskLevelFrom(pf) ==
    IF Len(pf.assets) = 0 THEN "Low"
    ELSE LET total == SumOver(priceChange, pf.assets)
             n == Len(pf.assets)
         IN  IF total >= 50 * n THEN "High"
             ELSE IF total >= 20 * n THEN "Medium"
             ELSE "Low"

\* volatility = sum of priceChange / length; > 0.5 High, > 0.2 Medium, else Low
calculateRiskLevel(pf) ==
    IF Len(pf.assets) = 0 THEN "Low"
    ELSE LET total == SumOver(priceChange, pf.assets)
             n == Len(pf.assets)
         IN  IF total > 50 * n THEN "High"
             ELSE IF total > 20 * n THEN "Medium"
             ELSE "Low"

\* slip: the counts compared with <
calculateDiversificationScoreBelow(pf) ==
    IF Len(pf.assets) < 1 THEN 25
    ELSE IF Len(pf.assets) < 3 THEN 50
    ELSE IF Len(pf.assets) < 5 THEN 75
    ELSE 90

calculateDiversificationScore(pf) ==
    IF Len(pf.assets) <= 1 THEN 25
    ELSE IF Len(pf.assets) <= 3 THEN 50
    ELSE IF Len(pf.assets) <= 5 THEN 75
    ELSE 90

\* slip: the gains compared in price units, not relative to the purchase price
GainsMore(asset, best) ==
    asset.currentPrice - asset.purchasePrice > best.currentPrice - best.purchasePrice

\* performance > bestPerformance, both (currentPrice - purchasePrice) /
\* purchasePrice * 100, cross-multiplied (purchase prices are positive)
Outperforms(asset, best) ==
    (asset.currentPrice - asset.purchasePrice) * best.purchasePrice
        > (best.currentPrice - best.purchasePrice) * asset.purchasePrice

RECURSIVE BestOf(_)
\* assets.reduce((best, asset) => ... ? asset : best) without an initial
\* value: the first asset is the first `best`
BestOf(assets) ==
    IF Len(assets) = 1 THEN assets[1]
    ELSE LET best == BestOf(SubSeq(assets, 1, Len(assets) - 1))
             asset == assets[Len(assets)]
         IN  IF Outperforms(asset, best) THEN asset ELSE best

\* <<>> is null
getTopPerformer(pf) ==
    IF Len(pf.assets) = 0 THEN <<>> ELSE <<BestOf(pf.assets)>>

\* performance.percentage (exact on the value domains) and performance.status
calculateAssetPerformance(asset) ==
    LET gain == asset.currentPrice - asset.purchasePrice
        percentage == IF gain >= 0
                      THEN (gain * 100) \div asset.purchasePrice
                      ELSE 0 - (((0 - gain) * 100) \div asset.purchasePrice)
    IN  [percentage |-> percentage,
         status |-> IF percentage > 10 THEN "excellent"
                    ELSE IF percentage > 0 THEN "good"
                    ELSE IF percentage > 0 - 10 THEN "fair"
                    ELSE "poor"]

calculateAssetRisk(asset) ==
    IF priceChange(asset) > 50 THEN "High"
    ELSE IF priceChange(asset) > 20 THEN "Medium"
    ELSE "Low"

Rec(type, priority, symbol) == [type |-> type, priority |-> priority, symbol |-> symbol]

\* slip: the count compared with <= 3
DiversificationRecsUpTo3(pf) ==
    IF Len(pf.assets) <= 3 THEN <<Rec("diversification", "high", "")>> ELSE <<>>

\* if (portfolio.assets.length < 3) push diversification/high
DiversificationRecs(pf) ==
    IF Len(pf.assets) < 3 THEN <<Rec("diversification", "high", "")>> ELSE <<>>

\* slip: the share compared with >= 0.6
IsDominantFrom60(asset, totalValue) ==
    IF totalValue = 0
    THEN asset.amount * asset.currentPrice > 0
    ELSE asset.amount * asset.currentPrice * 10 >= 6 * totalValue

\* (asset.amount * asset.currentPrice / totalValue) > 0.6
\* (x / 0 is Infinity for x > 0 and NaN for x = 0)
IsDominant(asset, totalValue) ==
    IF totalValue = 0
    THEN asset.amount * asset.currentPrice > 0
    ELSE asset.amount * asset.currentPrice * 10 > 6 * totalValue

\* portfolio.assets.find(pred): <<>> when nothing is found
Find(assets, pred(_)) ==
    IF \E i \in 1..Len(assets) : pred(assets[i])
    THEN <<assets[CHOOSE i \in 1..Len(assets) :
                    pred(assets[i]) /\ \A j \in 1..(i - 1) : ~pred(assets[j])]>>
    ELSE <<>>

ConcentrationRecs(pf) ==
    LET dominates(asset) == IsDominant(asset, pf.totalValue)
        dominantAsset == Find(pf.assets, dominates)
    IN  IF dominantAsset # <<>>
        THEN <<Rec("concentration", "medium", dominantAsset[1].symbol)>>
        ELSE <<>>

\* slip: predictedChange >= 20
ChangeFrom20(futurePrice, currentPrice) ==
    (futurePrice - currentPrice) * 100 >= 20 * currentPrice

\* predictedChange > 20, with predictedChange = (futurePrice - currentPrice) / currentPrice * 100
ChangeAbove20(futurePrice, currentPrice) ==
    (futurePrice - currentPrice) * 100 > 20 * currentPrice

\* predictedChange < -15
ChangeBelowMinus15(futurePrice, currentPrice) ==
    (futurePrice - currentPrice) * 100 < (0 - 15) * currentPrice

\* the recommendations one entry [symbol, prediction] of predictionData adds
EntryRecs(pf, symbol, prediction) ==
    LET held(a) == a.symbol = symbol
        asset == Find(pf.assets, held)
        path == prediction.future_predictions
    IN  IF asset # <<>> /\ Len(path) > 0
        THEN LET futurePrice == path[Len(path)]
                 currentPrice == asset[1].currentPrice
             IN  IF ChangeAbove20(futurePrice, currentPrice)
                 THEN <<Rec("opportunity", "high", symbol)>>
                 ELSE IF ChangeBelowMinus15(futurePrice, currentPrice)
                      THEN <<Rec("warning", "high", symbol)>>
                      ELSE <<>>
        ELSE <<>>

RECURSIVE MLRecs(_, _)
\* Object.entries(predictionData).forEach(...)
MLRecs(pf, predictionData) ==
    IF predictionData = <<>> THEN <<>>
    ELSE LET n == Len(predictionData)
         IN  MLRecs(pf, SubSeq(predictionData, 1, n - 1))
             \o EntryRecs(pf, predictionData[n][1], predictionData[n][2])

\* slip: the list is not emptied, the items of the report at hand are kept
generateRecommendationsKept(pf, predictionData) ==
    (IF reportData = <<>> THEN <<>> ELSE reportData[1].recommendations)
    \o DiversificationRecs(pf) \o ConcentrationRecs(pf) \o MLRecs(pf, predictionData)

generateRecommendations(pf, predictionData) ==
    DiversificationRecs(pf) \o ConcentrationRecs(pf) \o MLRecs(pf, predictionData)

\* the report object handed to setReportData
generatePortfolioReport(pf, predictionData) ==
    [totalAssets |-> Len(pf.assets),
     totalValue |-> pf.totalValue,
     totalCost |-> pf.totalCost,
     totalGainLoss |-> pf.totalGainLoss,
     totalGainLossPercentage |-> pf.totalGainLossPercentage,
     riskLevel |-> calculateRiskLevel(pf),
     diversificationScore |-> calculateDiversificationScore(pf),
     predictedValue |-> calculatePredictedPortfolioValue(pf, predictionData),
     topPerformer |-> getTopPerformer(pf),
     recommendations |-> generateRecommendations(pf, predictionData),
     assetAnalysis |->
        [i \in 1..Len(pf.assets) |->
            [asset |-> pf.assets[i],
             performance |-> calculateAssetPerformance(pf.assets[i]),
             risk |-> calculateAssetRisk(pf.assets[i]),
             prediction |-> Get(predictionData, pf.assets[i].symbol)]]]

-----------------------------------------------------------------------------
(* fetchPredictions: one pass is one call, with one fetch task per asset *)

\* symbol.toLowerCase() on Tickers
toLowerCase(symbol) ==
    CASE symbol = "BTC" -> "btc"
      [] symbol = "ETH" -> "eth"
      [] symbol = "ADA" -> "ada"
      [] symbol = "SOL" -> "sol"
      [] symbol = "DOT" -> "dot"
      [] symbol = "LINK" -> "link"
      [] symbol = "LTC" -> "ltc"
      [] symbol = "XRP" -> "xrp"
      [] symbol = "MATIC" -> "matic"
      [] symbol = "AVAX" -> "avax"
      [] symbol = "UNI" -> "uni"
      [] symbol = "ATOM" -> "atom"
      [] symbol = "DOGE" -> "doge"
      [] symbol = "doge" -> "doge"

\* symbolMap[asset.symbol] || asset.symbol.toLowerCase(), with the symbolMap
\* of fetchPredictions
apiSymbolOf(symbol) ==
    CASE symbol = "BTC" -> "bitcoin"
      [] symbol = "ETH" -> "ethereum"
      [] symbol = "ADA" -> "cardano"
      [] symbol = "SOL" -> "solana"
      [] symbol = "DOT" -> "polkadot"
      [] symbol = "LINK" -> "chainlink"
      [] symbol = "LTC" -> "litecoin"
      [] symbol = "XRP" -> "ripple"
      [] symbol = "MATIC" -> "matic-network"
      [] symbol = "AVAX" -> "avalanche-2"
      [] OTHER -> toLowerCase(symbol)

\* mlService.getCryptoSymbol: symbolMap[symbol] || symbol.toLowerCase(), with
\* the symbolMap of the ML service
getCryptoSymbol(symbol) ==
    CASE symbol = "BTC" -> "bitcoin"
      [] symbol = "ETH" -> "ethereum"
      [] symbol = "SOL" -> "solana"
      [] symbol = "ADA" -> "cardano"
      [] symbol = "DOT" -> "polkadot"
      [] symbol = "LINK" -> "chainlink"
      [] symbol = "MATIC" -> "matic-network"
      [] symbol = "AVAX" -> "avalanche-2"
      [] symbol = "UNI" -> "uniswap"
      [] symbol = "ATOM" -> "cosmos"
      [] OTHER -> toLowerCase(symbol)

\* the task of one asset, its request sent and not yet answered
TaskOf(asset, predictionTimeframe) ==
    [symbol |-> asset.symbol,
     request |-> [symbol |-> apiSymbolOf(asset.symbol), timeframe |-> predictionTimeframe],
     st |-> "pending",
     data |-> <<>>]

\* timeframe || selectedTimeframe, with the selectedTimeframe of the calling render
TimeframeOf(selected, timeframe) ==
    IF timeframe = <<>> \/ timeframe[1] = 0 THEN selected ELSE timeframe[1]

\* lines 53-97 with the portfolio pf and the selectedTimeframe of the calling
\* render: the passes in flight after the call
PassesAfterFetch(pf, selected, timeframe) ==
    IF Len(pf.assets) = 0 THEN passes
    ELSE Append(passes,
                [n |-> started + 1,
                 portfolio |-> pf,
                 timeframe |-> TimeframeOf(selected, timeframe),
                 tasks |-> [i \in 1..Len(pf.assets) |->
                               TaskOf(pf.assets[i], TimeframeOf(selected, timeframe))]])

\* fetchPredictions(timeframe) called from a render that sees pf and the
\* selectedTimeframe `selected`
fetchPredictions(pf, selected, timeframe) ==
    /\ passes' = PassesAfterFetch(pf, selected, timeframe)
    /\ started' = IF Len(pf.assets) = 0 THEN started ELSE started + 1
    /\ isLoadingPredictions' = IF Len(pf.assets) = 0 THEN isLoadingPredictions ELSE TRUE

\* a task has settled: its async function has returned {symbol, data}
Settled(task) == task.st \in {"ok", "failed"}

\* slip: Promise.race / Promise.any in place of Promise.all
AnySettled(tasks) == \E j \in 1..Len(tasks) : Settled(tasks[j])

\* await Promise.all(predictionPromises) resumes
AllSettled(tasks) == \A j \in 1..Len(tasks) : Settled(tasks[j])

\* the {symbol, data} each task returned
ResultsOf(tasks) ==
    [j \in 1..Len(tasks) |->
        [symbol |-> tasks[j].symbol,
         data |-> IF tasks[j].st = "ok" THEN tasks[j].data ELSE <<>>]]

RemoveAt(seq, i) == SubSeq(seq, 1, i - 1) \o SubSeq(seq, i + 1, Len(seq))

\* the forecast service with no request at hand
IdleService == [request |-> <<>>, reply |-> <<>>]

-----------------------------------------------------------------------------
(* The Predictions page: its state *)

\* the coins of the coin selector (three of the eight cryptoOptions)
CoinChoices == {"BTC", "ETH", "SOL"}

\* the values of the timeframe selector
TimeframeChoices == {"1d", "7d", "30d", "90d"}

\* timeframe.replace('d', '') on the values of the selector
withoutD(timeframe) ==
    CASE timeframe = "1d" -> "1"
      [] timeframe = "7d" -> "7"
      [] timeframe = "30d" -> "30"
      [] timeframe = "90d" -> "90"

\* parseInt on the decimal strings withoutD yields
parseInt(digits) ==
    CASE digits = "1" -> 1
      [] digits = "7" -> 7
      [] digits = "30" -> 30
      [] digits = "90" -> 90

\* the body of the POST /api/predict of mlService.getPrediction(symbol, timeframe)
PredictRequest(symbol, timeframeDays) ==
    [symbol |-> getCryptoSymbol(symbol), timeframe |-> timeframeDays]

\* the MLPrediction mlService.getPrediction resolves to: the response to the
\* request it has posted
PredictionFor(request) == [answers |-> request]

\* the page after its first render and its mount effect, which has called
\* checkBackendAvailability
MountedPage ==
    [mounted |-> TRUE,
     selectedCoin |-> "BTC",
     timeframe |-> "7d",
     isLoading |-> FALSE,
     isBackendAvailable |-> FALSE,
     modelStatus |-> <<>>,
     currentPrediction |-> <<>>,
     request |-> <<>>,        \* the getPrediction call in flight
     rendered |->             \* what the committed render shows: the Get
         [isBackendAvailable |-> FALSE,   \* Predictions button and the closure
          isLoading |-> FALSE,            \* of its handler read the first two,
          currentPrediction |-> <<>>],    \* chartData is made from the third
     checks |-> 1,            \* isBackendAvailable calls in flight
     statusLoads |-> 0,       \* loadModelStatus calls in flight
     toast |-> ""]            \* title of the last toast

\* the page while another route is shown
UnmountedPage == [MountedPage EXCEPT !.mounted = FALSE, !.checks = 0]

-----------------------------------------------------------------------------
(* AuthProvider: its state *)

\* the accounts of the backend
Users == {"alice", "bob"}

\* the token the backend issues to a user on the n-th login or register call
\* of the session (0: before the page was opened)
TokenOf(user, n) == [user |-> user, n |-> n]

\* JSON.stringify(data.user)
JSONstringify(user) ==
    CASE user = "alice" -> "{alice}"
      [] user = "bob" -> "{bob}"

\* JSON.parse(storedUser): <<>> when it throws
JSONparse(text) ==
    CASE text = "{alice}" -> <<"alice">>
      [] text = "{bob}" -> <<"bob">>
      [] OTHER -> <<>>

\* localStorage with neither key
EmptyStorage == [auth_token |-> <<>>, user_data |-> <<>>]

\* localStorage.setItem('auth_token', ...); setItem('user_data', ...)
StoredSession(user, token) ==
    [auth_token |-> <<token>>, user_data |-> <<JSONstringify(user)>>]

\* what localStorage can hold when the page is opened: nothing, the session
\* of an earlier visit, or a session whose user_data does not parse
StoredAtStart ==
    {EmptyStorage,
     StoredSession("alice", TokenOf("alice", 0)),
     [auth_token |-> <<TokenOf("alice", 0)>>, user_data |-> <<"{alice">>]}

\* AuthProvider before it is rendered
UnmountedAuth ==
    [mounted |-> FALSE,
     user |-> <<>>,
     token |-> <<>>,
     isLoading |-> TRUE,
     storage |-> EmptyStorage,
     verifying |-> <<>>,      \* the token of the verifyToken call in flight
     verified |-> "none",     \* how the verifyToken call has settled
     calls |-> <<>>,          \* login and register calls in flight
     issued |-> 0,            \* login and register calls made so far
     thrown |-> 0]            \* login and register calls that have thrown

-----------------------------------------------------------------------------
(* The effect on [portfolio.assets.length] *)

\* the effect has run with n assets and none is due
EffectRan(n) == [length |-> n, render |-> <<>>]

\* the effect has last run with n assets and the effect of a committed
\* render is due: its fetchPredictions is the closure of that render and
\* reads that render's selectedTimeframe
EffectDue(n, selected) == [length |-> n, render |-> <<[selectedTimeframe |-> selected]>>]

\* the component rendered for the first time on the asset list: the effect
\* of the first render is due when the list is not empty (with an empty
\* list it has run and done nothing)
FirstRender(assets) ==
    IF Len(assets) = 0 THEN EffectRan(0) ELSE EffectDue(0, DefaultTimeframe)

\* a render of PortfolioAnalytics: the portfolio of the context and the
\* state its handlers, its buttons and its effect are closed over
RenderOf(pf, selected, loading) ==
    [portfolio |-> pf, selectedTimeframe |-> selected, isLoadingPredictions |-> loading]

\* passes the effect that is due is going to start
PassesDue ==
    IF effectDeps.render # <<>> /\ Len(rendered.portfolio.assets) > 0 THEN 1 ELSE 0

-----------------------------------------------------------------------------
(* Actions *)

Init ==
    /\ portfolio = EmptyPortfolio
    /\ predictions = <<>>
    /\ isLoadingPredictions = FALSE
    /\ reportData = <<>>
    /\ selectedTimeframe = DefaultTimeframe
    /\ passes = <<>>
    /\ started = 0
    /\ results = <<>>
    /\ service = IdleService
    /\ captured = portfolio
    /\ page = UnmountedPage
    /\ auth = UnmountedAuth
    /\ effectDeps = EffectRan(Len(portfolio.assets))
    /\ rendered = RenderOf(portfolio, selectedTimeframe, isLoadingPredictions)

\* the portfolios GET /api/portfolio delivers as data.portfolio, totals included
DeliveredPortfolios == {PortfolioOf(assets) : assets \in LoadedLists}

\* loadPortfolio: GET /api/portfolio is answered and setPortfolio(data.portfolio)
\* stores it as delivered. The state is set in the continuation of the
\* request, so PortfolioAnalytics renders with it in a later task.
LoadPortfolio(delivered) ==
    /\ portfolio' = delivered
    /\ UNCHANGED <<predictions, isLoadingPredictions, reportData, selectedTimeframe,
                   passes, started, results, service, captured, page, auth,
                   effectDeps, rendered>>

\* React renders PortfolioAnalytics with the state set in continuations
\* (setPortfolio, the effect's and the pass's setIsLoadingPredictions) and
\* commits; the effect of the commit before has run by then. When
\* portfolio.assets.length differs from the one of the render before, the
\* effect of this render is due. (The bound keeps a pass for that effect.)
RenderAnalytics ==
    /\ effectDeps.render = <<>>
    /\ rendered # RenderOf(portfolio, selectedTimeframe, isLoadingPredictions)
    /\ (Len(portfolio.assets) # effectDeps.length /\ Len(portfolio.assets) > 0)
          => started < MaxPasses
    /\ rendered' = RenderOf(portfolio, selectedTimeframe, isLoadingPredictions)
    /\ effectDeps' = IF Len(portfolio.assets) # effectDeps.length
                     THEN EffectDue(effectDeps.length, selectedTimeframe)
                     ELSE effectDeps
    /\ UNCHANGED <<portfolio, predictions, isLoadingPredictions, reportData,
                   selectedTimeframe, passes, started, results, service, captured,
                   page, auth>>

\* the effect on [portfolio.assets.length], run after a commit that changed
\* the length: fetchPredictions() of that render when its portfolio is not
\* empty (no render of another portfolio is committed before the effect has
\* run). The state it sets is rendered in a later task.
PortfolioEffect ==
    /\ effectDeps.render # <<>>
    /\ effectDeps' = EffectRan(Len(rendered.portfolio.assets))
    /\ IF Len(rendered.portfolio.assets) > 0
       THEN fetchPredictions(rendered.portfolio,
                             effectDeps.render[1].selectedTimeframe, <<>>)
       ELSE UNCHANGED <<passes, started, isLoadingPredictions>>
    /\ UNCHANGED <<portfolio, predictions, reportData, selectedTimeframe, results,
                   service, captured, page, auth, rendered>>

\* the "Update Predictions" button of the committed render, disabled when
\* that render has isLoadingPredictions: fetchPredictions() of that render.
\* The state set in the click is rendered before the next event.
UpdatePredictions ==
    /\ ~rendered.isLoadingPredictions
    /\ Len(rendered.portfolio.assets) > 0
    /\ started + PassesDue < MaxPasses
    /\ fetchPredictions(rendered.portfolio, rendered.selectedTimeframe, <<>>)
    /\ rendered' = [rendered EXCEPT !.isLoadingPredictions = TRUE]
    /\ UNCHANGED <<portfolio, predictions, reportData, selectedTimeframe, results,
                   service, captured, page, auth, effectDeps>>

\* a timeframe button of the committed render, disabled when that render has
\* isLoadingPredictions: handleTimeframeChange(days) of that render. The
\* state set in the click is rendered before the next event.
handleTimeframeChange(timeframeDays) ==
    /\ ~rendered.isLoadingPredictions
    /\ Len(rendered.portfolio.assets) > 0
    /\ started + PassesDue < MaxPasses
    /\ selectedTimeframe' = timeframeDays
    /\ fetchPredictions(rendered.portfolio, rendered.selectedTimeframe, <<timeframeDays>>)
    /\ rendered' = [rendered EXCEPT !.selectedTimeframe = timeframeDays,
                                    !.isLoadingPredictions = TRUE]
    /\ UNCHANGED <<portfolio, predictions, reportData, results, service, captured,
                   page, auth, effectDeps>>

SetTask(i, j, st, data) ==
    passes' = [passes EXCEPT ![i].tasks[j].st = st, ![i].tasks[j].data = data]

\* response.ok and response.json() resolves: return {symbol, data}
FetchSucceeds(i, j, data) ==
    /\ passes[i].tasks[j].st = "pending"
    /\ SetTask(i, j, "ok", <<data>>)
    /\ UNCHANGED <<portfolio, predictions, isLoadingPredictions, reportData,
                   selectedTimeframe, started, results, service, captured, page, auth, effectDeps, rendered>>

\* fetch rejects, or the response is not ok, or its body does not parse:
\* the catch returns {symbol, data: null}
FetchFails(i, j) ==
    /\ passes[i].tasks[j].st = "pending"
    /\ SetTask(i, j, "failed", <<>>)
    /\ UNCHANGED <<portfolio, predictions, isLoadingPredictions, reportData,
                   selectedTimeframe, started, results, service, captured, page, auth, effectDeps, rendered>>

\* the request is never answered: fetch is called without a timeout or an
\* abort signal, so its promise stays pending
FetchNeverAnswers(i, j) ==
    /\ passes[i].tasks[j].st = "pending"
    /\ SetTask(i, j, "lost", <<>>)
    /\ UNCHANGED <<portfolio, predictions, isLoadingPredictions, reportData,
                   selectedTimeframe, started, results, service, captured, page, auth, effectDeps, rendered>>

\* Promise.all resolves: lines 99-109 and the finally, with the portfolio the
\* pass was started with
PassSettles(i) ==
    /\ AllSettled(passes[i].tasks)
    /\ results' = ResultsOf(passes[i].tasks)
    /\ predictions' = newPredictionsOf(results')
    /\ reportData' = <<generatePortfolioReport(passes[i].portfolio, predictions')>>
    /\ isLoadingPredictions' = FALSE
    /\ passes' = RemoveAt(passes, i)
    /\ UNCHANGED <<portfolio, selectedTimeframe, started, service, captured, page, auth, effectDeps, rendered>>

Next ==
    \/ \E delivered \in DeliveredPortfolios : LoadPortfolio(delivered)
    \/ RenderAnalytics
    \/ PortfolioEffect
    \/ UpdatePredictions
    \/ \E t \in Timeframes : handleTimeframeChange(t)
    \/ \E i \in 1..Len(passes) : \E j \in 1..Len(passes[i].tasks) :
          \/ FetchSucceeds(i, j, RisingForecast)
          \/ FetchFails(i, j)
          \/ FetchNeverAnswers(i, j)
    \/ \E i \in 1..Len(passes) : PassSettles(i)

Spec == Init /\ [][Next]_vars

-----------------------------------------------------------------------------
(* One pass in isolation: the portfolio has been loaded, the effect has    *)
(* called fetchPredictions() and every request is in flight.               *)

PassOf(pf, n, timeframe, tasks) ==
    [n |-> n, portfolio |-> pf, timeframe |-> timeframe, tasks |-> tasks]

InitPass ==
    \E assets \in AssetLists(MaxAssets) \ {<<>>} :
        /\ portfolio = PortfolioOf(assets)
        /\ predictions = <<>>
        /\ isLoadingPredictions = TRUE
        /\ reportData = <<>>
        /\ selectedTimeframe = DefaultTimeframe
        /\ passes = <<PassOf(portfolio, 1, DefaultTimeframe,
                             [i \in 1..Len(assets) |-> TaskOf(assets[i], DefaultTimeframe)])>>
        /\ started = 1
        /\ results = <<>>
        /\ service = IdleService
        /\ captured = portfolio
        /\ page = UnmountedPage
        /\ auth = UnmountedAuth
        /\ effectDeps = EffectRan(Len(portfolio.assets))
        /\ rendered = RenderOf(portfolio, selectedTimeframe, isLoadingPredictions)

NextPass ==
    \/ \E i \in 1..Len(passes) : \E j \in 1..Len(passes[i].tasks) :
          \/ \E data \in PassResponses : FetchSucceeds(i, j, data)
          \/ FetchFails(i, j)
          \/ FetchNeverAnswers(i, j)
    \/ \E i \in 1..Len(passes) : PassSettles(i)

SpecPass == InitPass /\ [][NextPass]_vars

\* the browser delivers every response that arrives, and a resolved
\* Promise.all resumes the pass; nothing makes a lost request answer
FairSpecPass ==
    /\ SpecPass
    /\ WF_vars(\E i \in 1..Len(passes) : \E j \in 1..Len(passes[i].tasks) :
                  \/ \E data \in PassResponses : FetchSucceeds(i, j, data)
                  \/ FetchFails(i, j))
    /\ WF_vars(\E i \in 1..Len(passes) : PassSettles(i))

-----------------------------------------------------------------------------
(* The report as a function of its inputs: a pass whose requests have all  *)
(* been answered, each ticker with an answer drawn from Responses or with  *)
(* a failure, about to resume after Promise.all.                           *)

AnsweredTask(asset, timeframe, answer) ==
    [TaskOf(asset, timeframe) EXCEPT
        !.st = IF answer = <<>> THEN "failed" ELSE "ok",
        !.data = answer]

InitReport ==
    \E assets \in AssetLists(MaxHeld) \ {<<>>} :
    \E answers \in [Symbols -> {<<>>} \cup {<<r>> : r \in Responses}] :
        /\ \A s \in Symbols :
              (\A i \in 1..Len(assets) : assets[i].symbol # s) => answers[s] = <<>>
        /\ portfolio = PortfolioOf(assets)
        /\ predictions = <<>>
        /\ isLoadingPredictions = TRUE
        /\ reportData = <<>>
        /\ selectedTimeframe = DefaultTimeframe
        /\ passes = <<PassOf(portfolio, 1, DefaultTimeframe,
                             [i \in 1..Len(assets) |->
                                 AnsweredTask(assets[i], DefaultTimeframe,
                                              answers[assets[i].symbol])])>>
        /\ started = 1
        /\ results = <<>>
        /\ service = IdleService
        /\ captured = portfolio
        /\ page = UnmountedPage
        /\ auth = UnmountedAuth
        /\ effectDeps = EffectRan(Len(portfolio.assets))
        /\ rendered = RenderOf(portfolio, selectedTimeframe, isLoadingPredictions)

NextReport == \E i \in 1..Len(passes) : PassSettles(i)

SpecReport == InitReport /\ [][NextReport]_vars

-----------------------------------------------------------------------------
(* The analytics of a portfolio as a function of its asset list: the       *)
(* portfolio is any list of tracked positions, the empty one included, and *)
(* generatePortfolioReport is applied to it with the forecasts at hand.    *)

InitAnalytics ==
    \E assets \in TrackedLists :
        /\ portfolio = PortfolioOf(assets)
        /\ predictions = <<>>
        /\ isLoadingPredictions = FALSE
        /\ reportData = <<>>
        /\ selectedTimeframe = DefaultTimeframe
        /\ passes = <<>>
        /\ started = 0
        /\ results = <<>>
        /\ service = IdleService
        /\ captured = portfolio
        /\ page = UnmountedPage
        /\ auth = UnmountedAuth
        /\ effectDeps = FirstRender(portfolio.assets)
        /\ rendered = RenderOf(portfolio, selectedTimeframe, isLoadingPredictions)

\* generatePortfolioReport(predictions): setReportData(report)
GenerateReport ==
    /\ reportData = <<>>
    /\ reportData' = <<generatePortfolioReport(portfolio, predictions)>>
    /\ UNCHANGED <<portfolio, predictions, isLoadingPredictions, selectedTimeframe,
                   passes, started, results, service, captured, page, auth, effectDeps, rendered>>

NextAnalytics == GenerateReport

SpecAnalytics == InitAnalytics /\ [][NextAnalytics]_vars

-----------------------------------------------------------------------------
(* One pass over a portfolio of one asset of any ticker: what goes to      *)
(* POST /predict for each ticker.                                          *)

InitSymbols ==
    \E s \in Tickers :
        /\ portfolio = PortfolioOf(<<Asset(1, s, 1)>>)
        /\ predictions = <<>>
        /\ isLoadingPredictions = TRUE
        /\ reportData = <<>>
        /\ selectedTimeframe = DefaultTimeframe
        /\ passes = <<PassOf(portfolio, 1, DefaultTimeframe,
                             <<TaskOf(Asset(1, s, 1), DefaultTimeframe)>>)>>
        /\ started = 1
        /\ results = <<>>
        /\ service = IdleService
        /\ captured = portfolio
        /\ page = UnmountedPage
        /\ auth = UnmountedAuth
        /\ effectDeps = EffectRan(Len(portfolio.assets))
        /\ rendered = RenderOf(portfolio, selectedTimeframe, isLoadingPredictions)

SpecSymbols == InitSymbols /\ [][NextPass]_vars

-----------------------------------------------------------------------------
(* AuthProvider *)

pageVars ==
    <<portfolio, predictions, isLoadingPredictions, reportData,
      selectedTimeframe, passes, started, results, service, captured, page,
      effectDeps, rendered>>

\* logout(): removeItem both keys, setToken(null), setUser(null)
LoggedOut(a) ==
    [a EXCEPT !.storage = EmptyStorage, !.token = <<>>, !.user = <<>>]

\* the mount effect
MountAuth ==
    /\ ~auth.mounted
    /\ LET storedToken == auth.storage.auth_token
           storedUser == auth.storage.user_data
           mounted == [auth EXCEPT !.mounted = TRUE, !.isLoading = FALSE]
       IN  auth' =
              IF storedToken # <<>> /\ storedUser # <<>>
              THEN IF JSONparse(storedUser[1]) # <<>>
                   THEN [mounted EXCEPT !.token = storedToken,
                                        !.user = JSONparse(storedUser[1]),
                                        !.verifying = storedToken]
                   ELSE LoggedOut(mounted)
              ELSE mounted
    /\ UNCHANGED pageVars

\* GET /api/auth/verify settles: "valid" (data.valid, setUser(data.user)),
\* "invalid" (data.valid is false, logout) or "error" (the response is not
\* ok or fetch rejects: catch, logout)
verifyTokenSettles(outcome) ==
    /\ auth.verifying # <<>>
    /\ LET settled == [auth EXCEPT !.verifying = <<>>, !.verified = outcome]
       IN  auth' = IF outcome = "valid"
                   THEN [settled EXCEPT !.user = <<auth.verifying[1].user>>]
                   ELSE LoggedOut(settled)
    /\ UNCHANGED pageVars

\* login(email, password) up to its await
login(user) ==
    /\ auth.mounted
    /\ auth.issued < MaxCalls
    /\ auth' = [auth EXCEPT !.isLoading = TRUE,
                            !.issued = @ + 1,
                            !.calls = Append(@, [kind |-> "login", user |-> user,
                                                 n |-> auth.issued + 1])]
    /\ UNCHANGED pageVars

\* register(userData): with a confirmation that does not match it throws
\* before any await (catch rethrows, finally resets isLoading); otherwise it
\* runs up to its await
register(user, confirmed) ==
    /\ auth.mounted
    /\ auth.issued < MaxCalls
    /\ auth' = IF confirmed
               THEN [auth EXCEPT !.isLoading = TRUE,
                                 !.issued = @ + 1,
                                 !.calls = Append(@, [kind |-> "register", user |-> user,
                                                      n |-> auth.issued + 1])]
               ELSE [auth EXCEPT !.isLoading = FALSE,
                                 !.issued = @ + 1,
                                 !.thrown = @ + 1]
    /\ UNCHANGED pageVars

\* the response of a login or register call is ok: both keys are stored,
\* setToken, setUser, finally
CallSucceeds(k) ==
    /\ k \in 1..Len(auth.calls)
    /\ LET call == auth.calls[k]
           token == TokenOf(call.user, call.n)
       IN  auth' = [auth EXCEPT !.calls = RemoveAt(@, k),
                                !.storage = StoredSession(call.user, token),
                                !.token = <<token>>,
                                !.user = <<call.user>>,
                                !.isLoading = FALSE]
    /\ UNCHANGED pageVars

\* a failed call that also signs out
CallFailsSigningOut(k) ==
    /\ k \in 1..Len(auth.calls)
    /\ auth' = LoggedOut([auth EXCEPT !.calls = RemoveAt(@, k),
                                      !.thrown = @ + 1,
                                      !.isLoading = FALSE])
    /\ UNCHANGED pageVars

\* the response of a login or register call is not ok, or fetch or
\* response.json() rejects: catch rethrows, finally
CallFails(k) ==
    /\ k \in 1..Len(auth.calls)
    /\ auth' = [auth EXCEPT !.calls = RemoveAt(@, k),
                            !.thrown = @ + 1,
                            !.isLoading = FALSE]
    /\ UNCHANGED pageVars

\* logout() from the navigation
logout ==
    /\ auth.mounted
    /\ auth' = LoggedOut(auth)
    /\ UNCHANGED pageVars

InitAuth ==
    \E stored \in StoredAtStart :
        /\ portfolio = EmptyPortfolio
        /\ predictions = <<>>
        /\ isLoadingPredictions = FALSE
        /\ reportData = <<>>
        /\ selectedTimeframe = DefaultTimeframe
        /\ passes = <<>>
        /\ started = 0
        /\ results = <<>>
        /\ service = IdleService
        /\ captured = portfolio
        /\ page = UnmountedPage
        /\ auth = [UnmountedAuth EXCEPT !.storage = stored]
        /\ effectDeps = EffectRan(Len(portfolio.assets))
        /\ rendered = RenderOf(portfolio, selectedTimeframe, isLoadingPredictions)

NextAuth ==
    \/ MountAuth
    \/ \E outcome \in {"valid", "invalid", "error"} : verifyTokenSettles(outcome)
    \/ \E user \in Users : login(user)
    \/ \E user \in Users : \E confirmed \in BOOLEAN : register(user, confirmed)
    \/ \E k \in 1..MaxCalls : CallSucceeds(k)
    \/ \E k \in 1..MaxCalls : CallFails(k)
    \/ logout

SpecAuth == InitAuth /\ [][NextAuth]_vars

-----------------------------------------------------------------------------
(* The Predictions page *)

analyticsVars ==
    <<portfolio, predictions, isLoadingPredictions, reportData,
      selectedTimeframe, passes, started, results, service, captured, effectDeps, rendered>>

\* <Select value={selectedCoin} onValueChange={setSelectedCoin}>
setSelectedCoin(coin) ==
    /\ page.mounted
    /\ coin # page.selectedCoin
    /\ page' = [page EXCEPT !.selectedCoin = coin]
    /\ UNCHANGED <<analyticsVars, auth>>

\* <Select value={timeframe} onValueChange={setTimeframe}>
setTimeframe(timeframe) ==
    /\ page.mounted
    /\ timeframe # page.timeframe
    /\ page' = [page EXCEPT !.timeframe = timeframe]
    /\ UNCHANGED <<analyticsVars, auth>>

\* the Refresh button: checkBackendAvailability up to its first await
checkBackendAvailability ==
    /\ page.mounted
    /\ page.checks + page.statusLoads < MaxChecks
    /\ page' = [page EXCEPT !.checks = @ + 1]
    /\ UNCHANGED <<analyticsVars, auth>>

\* mlService.isBackendAvailable() resolves (true when GET /api/health
\* answered ok, false on any error): setIsBackendAvailable, and
\* loadModelStatus is called when it is true
BackendAnswers(isAvailable) ==
    /\ page.checks > 0
    /\ page' = [page EXCEPT !.checks = @ - 1,
                            !.isBackendAvailable = isAvailable,
                            !.statusLoads = IF isAvailable THEN @ + 1 ELSE @]
    /\ UNCHANGED <<analyticsVars, auth>>

\* loadModelStatus settles: setModelStatus(status), or the error is logged
loadModelStatusSettles(ok) ==
    /\ page.statusLoads > 0
    /\ page' = [page EXCEPT !.statusLoads = @ - 1,
                            !.modelStatus = IF ok THEN <<"status">> ELSE @]
    /\ UNCHANGED <<analyticsVars, auth>>

\* the state a render of the page commits
RenderedPage(p) ==
    [isBackendAvailable |-> p.isBackendAvailable,
     isLoading |-> p.isLoading,
     currentPrediction |-> p.currentPrediction]

\* a render is committed after state was set in a promise continuation
\* (setIsBackendAvailable, setCurrentPrediction, setIsLoading(false)): until
\* then the page shows the render before
RenderPage ==
    /\ page.rendered # RenderedPage(page)
    /\ page' = [page EXCEPT !.rendered = RenderedPage(page)]
    /\ UNCHANGED <<analyticsVars, auth>>

\* a click on Get Predictions: the button of the committed render is enabled
\* (disabled={!isBackendAvailable || isLoading}) and getRealPredictions, the
\* closure of that render, runs up to its await; the render with isLoading
\* set is committed before the next event
getRealPredictions ==
    /\ page.mounted
    /\ page.rendered.isBackendAvailable
    /\ ~page.rendered.isLoading
    /\ IF ~page.rendered.isBackendAvailable
       THEN page' = [page EXCEPT !.toast = "ML Backend Unavailable"]
       ELSE page' = [page EXCEPT
                        !.isLoading = TRUE,
                        !.rendered.isLoading = TRUE,
                        !.request = <<PredictRequest(page.selectedCoin,
                                                     parseInt(withoutD(page.timeframe)))>>]
    /\ UNCHANGED <<analyticsVars, auth>>

\* mlService.getPrediction resolves: setCurrentPrediction, toast, finally
PredictionArrives ==
    /\ page.request # <<>>
    /\ page' = [page EXCEPT !.currentPrediction = <<PredictionFor(page.request[1])>>,
                            !.toast = "Predictions Generated",
                            !.isLoading = FALSE,
                            !.request = <<>>]
    /\ UNCHANGED <<analyticsVars, auth>>

\* mlService.getPrediction rejects (response not ok, or fetch fails): catch,
\* toast, finally
PredictionFails ==
    /\ page.request # <<>>
    /\ page' = [page EXCEPT !.toast = "Prediction Failed",
                            !.isLoading = FALSE,
                            !.request = <<>>]
    /\ UNCHANGED <<analyticsVars, auth>>

\* what the main chart of the committed render shows: under the label of
\* selectedCoin (a selection is rendered with its event), chartData, which is
\* formatPredictionsForChart(currentPrediction) whenever that render has a
\* forecast (the mock series of selectedCoin otherwise)
Displayed ==
    [coin |-> page.selectedCoin,
     timeframe |-> page.timeframe,
     forecast |-> page.rendered.currentPrediction]

InitPage ==
    /\ portfolio = EmptyPortfolio
    /\ predictions = <<>>
    /\ isLoadingPredictions = FALSE
    /\ reportData = <<>>
    /\ selectedTimeframe = DefaultTimeframe
    /\ passes = <<>>
    /\ started = 0
    /\ results = <<>>
    /\ service = IdleService
    /\ captured = portfolio
    /\ page = MountedPage
    /\ auth = UnmountedAuth
    /\ effectDeps = EffectRan(Len(portfolio.assets))
    /\ rendered = RenderOf(portfolio, selectedTimeframe, isLoadingPredictions)

NextPage ==
    \/ \E coin \in CoinChoices : setSelectedCoin(coin)
    \/ \E timeframe \in TimeframeChoices : setTimeframe(timeframe)
    \/ checkBackendAvailability
    \/ \E isAvailable \in BOOLEAN : BackendAnswers(isAvailable)
    \/ \E ok \in BOOLEAN : loadModelStatusSettles(ok)
    \/ RenderPage
    \/ getRealPredictions
    \/ PredictionArrives
    \/ PredictionFails

SpecPage == InitPage /\ [][NextPage]_vars

-----------------------------------------------------------------------------
(* The analytics page on a loaded portfolio that does not change: the      *)
(* effect of the first render has started the first pass and the render    *)
(* with isLoadingPredictions is yet to come; further passes are started    *)
(* with the buttons of the committed render.                               *)

\* the asset lists of the loaded portfolio
RefreshedLists == ListsOf({<<"BTC", 3>>, <<"ETH", 1>>}, MaxRefreshed)

InitLoaded ==
    \E assets \in RefreshedLists \ {<<>>} :
        /\ portfolio = PortfolioOf(assets)
        /\ predictions = <<>>
        /\ isLoadingPredictions = TRUE
        /\ reportData = <<>>
        /\ selectedTimeframe = DefaultTimeframe
        /\ passes = <<PassOf(portfolio, 1, DefaultTimeframe,
                             [i \in 1..Len(assets) |-> TaskOf(assets[i], DefaultTimeframe)])>>
        /\ started = 1
        /\ results = <<>>
        /\ service = IdleService
        /\ captured = portfolio
        /\ page = UnmountedPage
        /\ auth = UnmountedAuth
        /\ effectDeps = EffectRan(Len(portfolio.assets))
        /\ rendered = RenderOf(portfolio, DefaultTimeframe, FALSE)

NextRefresh ==
    \/ RenderAnalytics
    \/ UpdatePredictions
    \/ \E t \in Timeframes : handleTimeframeChange(t)
    \/ \E i \in 1..Len(passes) : \E j \in 1..Len(passes[i].tasks) :
          \/ FetchSucceeds(i, j, RisingForecast)
          \/ FetchFails(i, j)
          \/ FetchNeverAnswers(i, j)
    \/ \E i \in 1..Len(passes) : PassSettles(i)

SpecRefresh == InitLoaded /\ [][NextRefresh]_vars

-----------------------------------------------------------------------------
(* The portfolio context on its own (the analytics page is not mounted):   *)
(* a loaded portfolio and updateAsset, which no page of the application    *)
(* calls yet.                                                              *)

\* Partial<CryptoAsset> values passed as `updates`
AssetUpdates ==
    {[amount |-> 0], [amount |-> 3], [currentPrice |-> 120], [purchasePrice |-> 40],
     [amount |-> 1, purchasePrice |-> 60]}

\* { ...asset, ...updates }
Merged(asset, updates) ==
    [f \in DOMAIN asset |-> IF f \in DOMAIN updates THEN updates[f] ELSE asset[f]]

InitUpdate ==
    \E assets \in LoadedLists :
        /\ portfolio = PortfolioOf(assets)
        /\ predictions = <<>>
        /\ isLoadingPredictions = FALSE
        /\ reportData = <<>>
        /\ selectedTimeframe = DefaultTimeframe
        /\ passes = <<>>
        /\ started = 0
        /\ results = <<>>
        /\ service = IdleService
        /\ captured = portfolio
        /\ page = UnmountedPage
        /\ auth = UnmountedAuth
        /\ effectDeps = FirstRender(portfolio.assets)
        /\ rendered = RenderOf(portfolio, selectedTimeframe, isLoadingPredictions)

\* updateAsset as the caller holds it: `portfolio` in its body is the
\* portfolio of the render that created the callback
updateAsset(assetId, updates) ==
    /\ portfolio' =
          PortfolioOf([i \in 1..Len(captured.assets) |->
                          IF captured.assets[i].id = assetId
                          THEN Merged(captured.assets[i], updates)
                          ELSE captured.assets[i]])
    /\ UNCHANGED <<predictions, isLoadingPredictions, reportData, selectedTimeframe,
                   passes, started, results, service, captured, page, auth, effectDeps, rendered>>

\* the provider has rendered with the new state and the caller has received
\* the context value of that render, with a new updateAsset
ReceiveContext ==
    /\ captured # portfolio
    /\ captured' = portfolio
    /\ UNCHANGED <<portfolio, predictions, isLoadingPredictions, reportData,
                   selectedTimeframe, passes, started, results, service, page, auth, effectDeps, rendered>>

NextUpdate ==
    \/ \E assetId \in 1..(Len(portfolio.assets) + 1) :
          \E updates \in AssetUpdates : updateAsset(assetId, updates)
    \/ ReceiveContext

SpecUpdate == InitUpdate /\ [][NextUpdate]_vars

-----------------------------------------------------------------------------
(* The Asset Forecast Service behind POST /predict: the Ensemble Fuser and *)
(* the Forecast Generator.  Its code is not among the sources; it is       *)
(* written from sections 4.3 to 4.5 of the specification.  Prices and      *)
(* confidences that are not integers are fractions <<num, den>> in lowest  *)
(* terms, den > 0.                                                         *)

RatLeq(a, b) == a[1] * b[2] <= b[1] * a[2]
RatLess(a, b) == a[1] * b[2] < b[1] * a[2]
RatMax(a, b) == IF RatLeq(a, b) THEN b ELSE a
RatMinus(a, b) == Ratio(a[1] * b[2] - b[1] * a[2], a[2] * b[2])
RatTimes(a, k) == Ratio(a[1] * k, a[2])

\* decay_rate, a configuration constant: 0.5 per day
DecayRate == <<1, 2>>

\* what one Predictor returned: predicted_price and confidence in [0,100]
ModelOutputs ==
    {[predicted_price |-> 90, confidence |-> 100],
     [predicted_price |-> 120, confidence |-> 2],
     [predicted_price |-> 30, confidence |-> 0]}

\* mapping model_kind -> ModelPrediction | absent
ModelMappings ==
    [sequence : {<<>>} \cup {<<o>> : o \in ModelOutputs},
     tree_ensemble : {<<>>} \cup {<<o>> : o \in ModelOutputs},
     linear : {<<>>} \cup {<<o>> : o \in ModelOutputs}]

ForecastRequests ==
    [current_price : {60, 120},
     predictions : ModelMappings,
     horizon_days : (0 - 1)..MaxHorizon]

PresentOf(mapping) ==
    mapping.sequence \o mapping.tree_ensemble \o mapping.linear

PredictedPriceOf(p) == p.predicted_price
ConfidenceOf(p) == p.confidence

\* slip: the confidences added up and not divided
fusedConfidenceSum(present) == Ratio(SumOver(ConfidenceOf, present), 1)

\* arithmetic mean of the present confidences
fusedConfidence(present) == Ratio(SumOver(ConfidenceOf, present), Len(present))

\* arithmetic mean of the present predicted prices
fusedPrice(present) == Ratio(SumOver(PredictedPriceOf, present), Len(present))

fuse(mapping) ==
    LET present == PresentOf(mapping)
    IN  IF present = <<>>
        THEN [error |-> "NoModelsAvailableError"]
        ELSE [error |-> "",
              fused_price |-> fusedPrice(present),
              fused_confidence |-> fusedConfidence(present)]

\* slip: steps counted from 0
stepPriceFromZero(current_price, fused_price, i, horizon_days) ==
    Ratio(current_price * fused_price[2] * horizon_days
            + (fused_price[1] - current_price * fused_price[2]) * (i - 1),
          fused_price[2] * horizon_days)

\* current_price + delta * (i / horizon_days), delta = fused_price - current_price
stepPrice(current_price, fused_price, i, horizon_days) ==
    Ratio(current_price * fused_price[2] * horizon_days
            + (fused_price[1] - current_price * fused_price[2]) * i,
          fused_price[2] * horizon_days)

\* slip: no floor
stepConfidenceUnfloored(fused_confidence, i) ==
    RatMinus(fused_confidence, RatTimes(DecayRate, i))

\* max(50, fused_confidence - decay_rate * i)
stepConfidence(fused_confidence, i) ==
    RatMax(<<50, 1>>, RatMinus(fused_confidence, RatTimes(DecayRate, i)))

\* the future path for horizon_days >= 1; date i is the i-th day after now
generate_path(current_price, fused_price, fused_confidence, horizon_days) ==
    [i \in 1..horizon_days |->
        [date |-> i,
         predicted_price |-> stepPrice(current_price, fused_price, i, horizon_days),
         confidence |-> stepConfidence(fused_confidence, i)]]

\* slip: a horizon of 0 or less replaced by one day
AssetForecastOneDay(request) ==
    LET fused == fuse(request.predictions)
        horizon_days == IF request.horizon_days <= 0 THEN 1 ELSE request.horizon_days
    IN  IF fused.error # ""
        THEN [error |-> fused.error]
        ELSE [error |-> "",
              current_price |-> request.current_price,
              predictions |-> request.predictions,
              fused_price |-> fused.fused_price,
              fused_confidence |-> fused.fused_confidence,
              future_path |-> generate_path(request.current_price, fused.fused_price,
                                            fused.fused_confidence, horizon_days)]

\* the reply to one request: an EnsembleForecast or an error
AssetForecast(request) ==
    IF request.horizon_days <= 0
    THEN [error |-> "InvalidHorizonError"]
    ELSE LET fused == fuse(request.predictions)
         IN  IF fused.error # ""
             THEN [error |-> fused.error]
             ELSE [error |-> "",
                   current_price |-> request.current_price,
                   predictions |-> request.predictions,
                   fused_price |-> fused.fused_price,
                   fused_confidence |-> fused.fused_confidence,
                   future_path |-> generate_path(request.current_price, fused.fused_price,
                                                 fused.fused_confidence,
                                                 request.horizon_days)]

InitForecast ==
    \E request \in ForecastRequests :
        /\ portfolio = EmptyPortfolio
        /\ predictions = <<>>
        /\ isLoadingPredictions = FALSE
        /\ reportData = <<>>
        /\ selectedTimeframe = DefaultTimeframe
        /\ passes = <<>>
        /\ started = 0
        /\ results = <<>>
        /\ service = [request |-> <<request>>, reply |-> <<>>]
        /\ captured = portfolio
        /\ page = UnmountedPage
        /\ auth = UnmountedAuth
        /\ effectDeps = EffectRan(Len(portfolio.assets))
        /\ rendered = RenderOf(portfolio, selectedTimeframe, isLoadingPredictions)

\* the service answers the request at hand
ServeForecast ==
    /\ service.request # <<>>
    /\ service.reply = <<>>
    /\ service' = [service EXCEPT !.reply = <<AssetForecast(service.request[1])>>]
    /\ UNCHANGED <<portfolio, predictions, isLoadingPredictions, reportData,
                   selectedTimeframe, passes, started, results, captured, page, auth, effectDeps, rendered>>

NextForecast == ServeForecast

SpecForecast == InitForecast /\ [][NextForecast]_vars

-----------------------------------------------------------------------------
(* Properties *)

Report == reportData[1]
Held == portfolio.assets
Indices(seq) == [i \in 1..Len(seq) |-> i]

\* the model prices a forecast carries
PresentPrices(prediction) ==
    LET p == prediction.predictions
    IN  p.lstm \o p.random_forest \o p.linear_regression

PriceOf(x) == x
SumOfPresent(prediction) == SumOver(PriceOf, PresentPrices(prediction))
NumPresent(prediction) == Len(PresentPrices(prediction))

HasRec(type, priority, symbol) ==
    \E k \in 1..Len(Report.recommendations) :
        Report.recommendations[k] = Rec(type, priority, symbol)

RecsOfType(type) ==
    {k \in 1..Len(Report.recommendations) : Report.recommendations[k].type = type}

\* C1: when some forecast fetches of a pass fail, the pass still produces a
\* report; every asset whose fetch failed is recorded without a forecast and
\* adds amount x current price to the predicted value, and an asset whose
\* fetch succeeded still gets its recommendation.
C1_FailedAssetsFallBack ==
    reportData # <<>> =>
        LET failed(i) == results[i].data = <<>>
            adds(i) == IF failed(i)
                       THEN Held[i].amount * Held[i].currentPrice
                       ELSE PredictedAssetValue(Held[i], predictions)
        IN  /\ Len(results) = Len(Held)
            /\ \A i \in 1..Len(Held) :
                  failed(i) => Report.assetAnalysis[i].prediction = <<>>
            /\ Report.predictedValue = SumOver(adds, Indices(Held))
            /\ \A i \in 1..Len(Held) :
                  (~failed(i) /\ Get(predictions, Held[i].symbol)[1].future_predictions = <<73>>
                              /\ Held[i].currentPrice = 60)
                     => HasRec("opportunity", "high", Held[i].symbol)

\* C2: the report of a pass is computed, and the pass ends, only in a step
\* in which every per-asset task of that pass has already succeeded or failed.
C2_JoinBarrier ==
    [][(reportData' # reportData \/ Len(passes') < Len(passes)) =>
          \E i \in 1..Len(passes) :
              /\ passes' = RemoveAt(passes, i)
              /\ \A j \in 1..Len(passes[i].tasks) :
                    passes[i].tasks[j].st \in {"ok", "failed"}
              /\ reportData' # <<>>]_vars

\* a pass over three assets has reported after one task failed and one succeeded
C2_Witness ==
    /\ reportData # <<>>
    /\ passes = <<>>
    /\ Len(results) = 3
    /\ \E i, j \in 1..3 : results[i].data = <<>> /\ results[j].data # <<>>

\* C3: every started pass eventually produces a report and leaves the
\* loading state, even when a request is never answered.
C3_EveryPassReports ==
    isLoadingPredictions ~> (~isLoadingPredictions /\ reportData # <<>>)

\* C4: the predicted value is the sum of amount x P(asset), P being the mean
\* of the present model prices of the asset's forecast, or the current price
\* without a forecast (stated times 6, for forecasts with a present model).
C4_PredictedValueIsSumOfFused ==
    reportData # <<>> =>
        LET forecast(i) == Report.assetAnalysis[i].prediction
            six(i) == IF forecast(i) = <<>>
                      THEN 6 * Held[i].amount * Held[i].currentPrice
                      ELSE Held[i].amount * (6 \div NumPresent(forecast(i)[1]))
                             * SumOfPresent(forecast(i)[1])
        IN  (\A i \in 1..Len(Held) :
                forecast(i) # <<>> => NumPresent(forecast(i)[1]) > 0)
            => 6 * Report.predictedValue = SumOver(six, Indices(Held))

\* C5: the fused price of a forecast is the mean of the prices of exactly
\* the models that are present, whatever the current price.
C5_FusedPriceIsMeanOfPresent ==
    reportData # <<>> =>
        \A i \in 1..Len(Held) :
            LET forecast == Report.assetAnalysis[i].prediction
            IN  (forecast # <<>> /\ NumPresent(forecast[1]) > 0) =>
                    NumPresent(forecast[1]) * avgPrediction(forecast[1], Held[i])
                        = SumOfPresent(forecast[1])

\* C6: a forecast without any present model is an error: no report is ever
\* computed from one.
C6_NoModelsIsAnError ==
    reportData # <<>> =>
        \A i \in 1..Len(Held) :
            LET forecast == Report.assetAnalysis[i].prediction
            IN  forecast # <<>> => NumPresent(forecast[1]) > 0

\* C7: a diversification recommendation, of priority high, is in the report
\* exactly when the portfolio holds fewer than 3 assets.
C7_Diversification ==
    reportData # <<>> =>
        /\ HasRec("diversification", "high", "") <=> Len(Held) < 3
        /\ \A k \in RecsOfType("diversification") :
              Report.recommendations[k].priority = "high"

\* a report on two assets carries the diversification recommendation
C7_Witness ==
    /\ reportData # <<>>
    /\ Len(Held) = 2
    /\ HasRec("diversification", "high", "")

\* C8: a concentration recommendation, of priority medium, is in the report
\* exactly when one asset's value is strictly more than 60% of the total
\* value, and there is at most one.
C8_Concentration ==
    reportData # <<>> =>
        /\ RecsOfType("concentration") # {}
              <=> \E i \in 1..Len(Held) :
                     5 * Held[i].amount * Held[i].currentPrice > 3 * portfolio.totalValue
        /\ Cardinality(RecsOfType("concentration")) <= 1
        /\ \A k \in RecsOfType("concentration") :
              Report.recommendations[k].priority = "medium"

\* a report on a portfolio whose largest asset is exactly 60% of the total
\* carries no concentration recommendation
C8_Witness ==
    /\ reportData # <<>>
    /\ \E i \in 1..Len(Held) :
          5 * Held[i].amount * Held[i].currentPrice = 3 * portfolio.totalValue
    /\ RecsOfType("concentration") = {}

\* C9: for an asset with a forecast whose path is not empty, with f the last
\* price of the path and c the current price: opportunity/high for its ticker
\* iff (f - c) / c > 1/5, warning/high iff (f - c) / c < -3/20; an asset
\* without a forecast, or with an empty path, gets neither.
C9_OpportunityAndWarning ==
    reportData # <<>> =>
        \A i \in 1..Len(Held) :
            LET forecast == Report.assetAnalysis[i].prediction
                s == Held[i].symbol
                c == Held[i].currentPrice
            IN  IF forecast # <<>> /\ forecast[1].future_predictions # <<>>
                THEN LET path == forecast[1].future_predictions
                         f == path[Len(path)]
                     IN  /\ HasRec("opportunity", "high", s) <=> 5 * (f - c) > c
                         /\ HasRec("warning", "high", s) <=> 20 * (f - c) < (0 - 3) * c
                ELSE \A k \in RecsOfType("opportunity") \cup RecsOfType("warning") :
                        Report.recommendations[k].symbol # s

\* one asset is forecast exactly 20% up and gets nothing, another is forecast
\* more than 20% up and gets the opportunity
C9_Witness ==
    /\ reportData # <<>>
    /\ \E i, j \in 1..Len(Held) :
          LET fi == Report.assetAnalysis[i].prediction
              fj == Report.assetAnalysis[j].prediction
          IN  /\ fi # <<>> /\ fj # <<>>
              /\ fi[1].future_predictions # <<>> /\ fj[1].future_predictions # <<>>
              /\ 5 * (fi[1].future_predictions[Len(fi[1].future_predictions)]
                        - Held[i].currentPrice) = Held[i].currentPrice
              /\ ~HasRec("opportunity", "high", Held[i].symbol)
              /\ HasRec("opportunity", "high", Held[j].symbol)

\* position in the asset list of the asset a per-asset recommendation is
\* about: the first asset with its ticker
AssetIndexOf(symbol) ==
    CHOOSE i \in 1..Len(Held) :
        Held[i].symbol = symbol /\ \A j \in 1..(i - 1) : Held[j].symbol # symbol

RecRank(rec) ==
    CASE rec.type = "diversification" -> 1
      [] rec.type = "concentration" -> 2
      [] OTHER -> 3

\* C10: the recommendations come in the order diversification, concentration,
\* then the opportunity/warning items in the order of their assets in the
\* portfolio's asset list, also when some forecasts are absent.
C10_RecommendationOrder ==
    reportData # <<>> =>
        \A k, l \in 1..Len(Report.recommendations) :
            k < l =>
                LET a == Report.recommendations[k]
                    b == Report.recommendations[l]
                IN  /\ RecRank(a) <= RecRank(b)
                    /\ (RecRank(a) = 3 /\ RecRank(b) = 3)
                          => AssetIndexOf(a.symbol) < AssetIndexOf(b.symbol)

\* the opportunity and warning items about one ticker
ForecastRecsOn(symbol) ==
    {k \in RecsOfType("opportunity") \cup RecsOfType("warning") :
        Report.recommendations[k].symbol = symbol}

\* C11: in one report no rule fires twice: at most one diversification item,
\* at most one concentration item, and for every held asset at most one item
\* among opportunity and warning, also when two positions share a ticker.
C11_NoRuleFiresTwice ==
    reportData # <<>> =>
        /\ Cardinality(RecsOfType("diversification")) <= 1
        /\ Cardinality(RecsOfType("concentration")) <= 1
        /\ \A i \in 1..Len(Held) : Cardinality(ForecastRecsOn(Held[i].symbol)) <= 1

\* two positions of one ticker were both forecast and the ticker has its one
\* opportunity item
C11_Witness ==
    /\ reportData # <<>>
    /\ \E i, j \in 1..Len(Held) :
          /\ i < j
          /\ Held[i].symbol = Held[j].symbol
          /\ results[i].data # <<>> /\ results[j].data # <<>>
          /\ Cardinality(ForecastRecsOn(Held[i].symbol)) = 1

\* |current price - purchase price| / purchase price of one asset, in percent
\* (a whole number on the value domains)
ChangePct(asset) ==
    CHOOSE q \in 0..100 :
        q * asset.purchasePrice = 100 * Abs(asset.currentPrice - asset.purchasePrice)

\* C12 as stated: with v the mean of |current - purchase| / purchase, the risk
\* level is Low iff v < 0.2, Medium iff 0.2 <= v < 0.5, High iff v >= 0.5
\* (v exactly 0.2 is Medium, v exactly 0.5 is High).
C12_RiskThresholds ==
    (reportData # <<>> /\ Len(Held) > 0) =>
        LET total == SumOver(ChangePct, Held)
            n == Len(Held)
        IN  /\ Report.riskLevel = "Low" <=> total < 20 * n
            /\ Report.riskLevel = "Medium" <=> (20 * n <= total /\ total < 50 * n)
            /\ Report.riskLevel = "High" <=> total >= 50 * n

\* C12 amended: the risk level is Low iff v <= 0.2, Medium iff 0.2 < v <= 0.5,
\* High iff v > 0.5 (v exactly 0.2 is Low, v exactly 0.5 is Medium), and an
\* empty portfolio is Low.
C12_RiskThresholdsStrict ==
    reportData # <<>> =>
        LET total == SumOver(ChangePct, Held)
            n == Len(Held)
        IN  /\ n = 0 => Report.riskLevel = "Low"
            /\ Report.riskLevel = "Low" <=> total <= 20 * n
            /\ Report.riskLevel = "Medium" <=> (20 * n < total /\ total <= 50 * n)
            /\ Report.riskLevel = "High" <=> total > 50 * n

\* a portfolio of several assets whose mean change is exactly 0.2 is reported Low
C12_Witness ==
    /\ reportData # <<>>
    /\ Len(Held) >= 2
    /\ SumOver(ChangePct, Held) = 20 * Len(Held)
    /\ Report.riskLevel = "Low"

\* C13: the diversification score is 25 for 1 asset, 50 for 2..3, 75 for
\* 4..5 and 90 for 6 or more; it is one of 25, 50, 75, 90 and no shorter
\* portfolio scores higher.
C13_DiversificationScore ==
    reportData # <<>> =>
        LET n == Len(Held)
            score == Report.diversificationScore
        IN  /\ n = 1 => score = 25
            /\ n \in 2..3 => score = 50
            /\ n \in 4..5 => score = 75
            /\ n >= 6 => score = 90
            /\ score \in {25, 50, 75, 90}
            /\ \A m \in 0..n :
                  calculateDiversificationScore(PortfolioOf(SubSeq(Held, 1, m))) <= score

\* a report on six assets scores 90
C13_Witness ==
    /\ reportData # <<>>
    /\ Len(Held) = 6
    /\ Report.diversificationScore = 90

\* C14: the top performer is null for an empty portfolio; otherwise it is a
\* held asset whose return (current - purchase) / purchase is at least the
\* return of every held asset.
C14_TopPerformer ==
    reportData # <<>> =>
        IF Len(Held) = 0
        THEN Report.topPerformer = <<>>
        ELSE /\ Report.topPerformer # <<>>
             /\ \E i \in 1..Len(Held) : Held[i] = Report.topPerformer[1]
             /\ \A j \in 1..Len(Held) :
                   LET top == Report.topPerformer[1]
                   IN  (top.currentPrice - top.purchasePrice) * Held[j].purchasePrice
                          >= (Held[j].currentPrice - Held[j].purchasePrice) * top.purchasePrice

\* the top performer gained less in price units than another held asset and
\* is not the first of the list
C14_Witness ==
    /\ reportData # <<>>
    /\ Len(Held) >= 2
    /\ Report.topPerformer # <<>>
    /\ Report.topPerformer[1] # Held[1]
    /\ \E j \in 1..Len(Held) :
          Held[j].currentPrice - Held[j].purchasePrice
             > Report.topPerformer[1].currentPrice - Report.topPerformer[1].purchasePrice

Served == service.reply # <<>> /\ service.reply[1].error = ""
Reply == service.reply[1]
Request == service.request[1]

\* C15: for a horizon of at least 1 the path has exactly horizon_days steps,
\* step i priced current_price + (fused_price - current_price) * i /
\* horizon_days; the last step is the fused price, and the prices rise
\* strictly from step to step when the fused price is above the current one.
C15_PathInterpolates ==
    Served =>
        LET h == Request.horizon_days
            c == Request.current_price
            f == Reply.fused_price
            path == Reply.future_path
        IN  /\ Len(path) = h
            /\ \A i \in 1..h :
                  path[i].predicted_price[1] * f[2] * h
                     = path[i].predicted_price[2] * (c * f[2] * h + (f[1] - c * f[2]) * i)
            /\ path[h].predicted_price = f
            /\ RatLess(<<c, 1>>, f) =>
                  \A i \in 1..(h - 1) :
                      RatLess(path[i].predicted_price, path[i + 1].predicted_price)

\* a path of four steps towards a fused price above the current price
C15_Witness ==
    /\ Served
    /\ Request.horizon_days = 4
    /\ RatLess(<<Request.current_price, 1>>, Reply.fused_price)
    /\ Len(Reply.future_path) = 4

\* C16: along a path the confidence of step i is
\* max(50, fused_confidence - decay_rate * i); it never rises from step to
\* step and is never below 50.
C16_ConfidenceDecays ==
    Served =>
        LET path == Reply.future_path
            decayed(i) == RatMinus(Reply.fused_confidence, RatTimes(DecayRate, i))
        IN  /\ \A i \in 1..Len(path) :
                  /\ RatLeq(<<50, 1>>, path[i].confidence)
                  /\ RatLeq(decayed(i), path[i].confidence)
                  /\ path[i].confidence \in {<<50, 1>>, decayed(i)}
            /\ \A i \in 1..(Len(path) - 1) :
                  RatLeq(path[i + 1].confidence, path[i].confidence)

\* a path whose confidence first decays and then rests on the floor
C16_Witness ==
    /\ Served
    /\ Len(Reply.future_path) >= 3
    /\ RatLess(Reply.future_path[2].confidence, Reply.future_path[1].confidence)
    /\ RatLess(RatMinus(Reply.fused_confidence, RatTimes(DecayRate, 3)), <<50, 1>>)
    /\ Reply.future_path[3].confidence = <<50, 1>>

\* C18: the fused confidence of a non-empty set of present models, each with
\* a confidence in [0,100], is within [0,100].
C18_FusedConfidenceInRange ==
    Served =>
        /\ RatLeq(<<0, 1>>, Reply.fused_confidence)
        /\ RatLeq(Reply.fused_confidence, <<100, 1>>)

\* two present models with confidences 100 and 2 are fused
C18_Witness ==
    /\ Served
    /\ Len(PresentOf(Request.predictions)) = 2
    /\ Reply.fused_confidence = <<51, 1>>

C19_TotalsDerived ==
    [][portfolio' # portfolio =>
          LET after == portfolio'.assets
              cost(i) == after[i].amount * after[i].purchasePrice
              value(i) == after[i].amount * after[i].currentPrice
              pct == portfolio'.totalGainLossPercentage
          IN  /\ portfolio'.totalCost = SumOver(cost, Indices(after))
              /\ portfolio'.totalValue = SumOver(value, Indices(after))
              /\ portfolio'.totalGainLoss = portfolio'.totalValue - portfolio'.totalCost
              /\ IF portfolio'.totalCost = 0
                 THEN pct = <<0, 1>>
                 ELSE /\ pct[2] > 0
                      /\ pct[1] * portfolio'.totalCost
                            = 100 * portfolio'.totalGainLoss * pct[2]
              /\ Len(after) = Len(Held)
              /\ \E assetId \in 1..Len(Held) :
                    \A i \in 1..Len(Held) : Held[i].id # assetId => after[i] = Held[i]]_vars

\* what an item of the report rests on, in the portfolio and the forecasts of
\* the pass that produced the report
Warranted(rec) ==
    LET about(i) == Held[i].symbol = rec.symbol
        path == Get(predictions, rec.symbol)[1].future_predictions
        rises(i) == 5 * (path[Len(path)] - Held[i].currentPrice) > Held[i].currentPrice
        falls(i) == 20 * (path[Len(path)] - Held[i].currentPrice) < (0 - 3) * Held[i].currentPrice
    IN  CASE rec.type = "diversification" -> Len(Held) < 3
          [] rec.type = "concentration" ->
                \E i \in 1..Len(Held) :
                    about(i) /\ 5 * Held[i].amount * Held[i].currentPrice > 3 * portfolio.totalValue
          [] rec.type = "opportunity" ->
                /\ HasKey(predictions, rec.symbol) /\ path # <<>>
                /\ \E i \in 1..Len(Held) : about(i) /\ rises(i)
          [] rec.type = "warning" ->
                /\ HasKey(predictions, rec.symbol) /\ path # <<>>
                /\ \E i \in 1..Len(Held) : about(i) /\ falls(i)
          [] OTHER -> FALSE

\* C20: every item of a report has a type among diversification,
\* concentration, opportunity, warning and a priority among high, medium, low,
\* and the list is made anew by each pass: every item rests on the portfolio
\* and the forecasts of the pass that reported, and none appears twice.
C20_FreshRecommendations ==
    reportData # <<>> =>
        LET recs == Report.recommendations
        IN  /\ \A k \in 1..Len(recs) :
                  /\ recs[k].type \in {"diversification", "concentration", "opportunity", "warning"}
                  /\ recs[k].priority \in {"high", "medium", "low"}
                  /\ Warranted(recs[k])
            /\ \A k, l \in 1..Len(recs) : recs[k] = recs[l] => k = l

\* a second pass has reported without any forecast, and its report carries
\* neither opportunity nor warning
C20_Witness ==
    /\ reportData # <<>>
    /\ started = 2
    /\ passes = <<>>
    /\ predictions = <<>>
    /\ Len(Report.recommendations) > 0
    /\ RecsOfType("opportunity") \cup RecsOfType("warning") = {}

\* C21: the stored forecasts are replaced as a whole by each pass: after a
\* pass they are exactly the responses of that pass for the assets whose
\* fetch succeeded, and an asset whose fetch failed has no stored forecast.
C21_ForecastsReplaced ==
    (reportData # <<>> /\ passes = <<>>) =>
        /\ Len(results) = Len(Held)
        /\ \A i \in 1..Len(Held) :
              IF results[i].data = <<>>
              THEN Get(predictions, Held[i].symbol) = <<>>
              ELSE Get(predictions, Held[i].symbol) = results[i].data
        /\ \A k \in 1..Len(predictions) :
              \E i \in 1..Len(Held) :
                  Held[i].symbol = predictions[k][1] /\ results[i].data # <<>>

\* the pass numbers of the passes in flight
InFlight == {passes[j].n : j \in 1..Len(passes)}

\* C24: when passes overlap, an earlier pass never overwrites the result of a
\* later one: in the step in which a pass settles and stores its forecasts
\* and its report, every pass started after it is still in flight.
C24_LatestPassWins ==
    [][\A i \in 1..Len(passes) :
          (passes' = RemoveAt(passes, i) /\ reportData' # <<>>)
             => \A m \in (passes[i].n + 1)..started : m \in InFlight]_vars

\* C25: isLoadingPredictions is true whenever a pass is in flight, and no pass
\* is started for an empty portfolio.
C25_LoadingWhileInFlight ==
    /\ passes # <<>> => isLoadingPredictions
    /\ \A i \in 1..Len(passes) : Len(passes[i].portfolio.assets) > 0

\* C22: the symbol sent to POST /predict by portfolio analytics for an asset
\* is the one mlService.getCryptoSymbol gives for the asset's ticker.
C22_OneSymbolMapping ==
    \A i \in 1..Len(passes) : \A j \in 1..Len(passes[i].tasks) :
        passes[i].tasks[j].request.symbol = getCryptoSymbol(passes[i].tasks[j].symbol)

\* C29: on the Predictions page the forecast on display is the forecast of
\* the selected coin over the selected timeframe.
C29_DisplayedForecastIsSelected ==
    Displayed.forecast # <<>> =>
        Displayed.forecast[1] =
            PredictionFor(PredictRequest(Displayed.coin,
                                         parseInt(withoutD(Displayed.timeframe))))

\* C30: getRealPredictions starts a request only when the backend was last
\* found available; a request that fails leaves the stored forecast as it
\* was; isLoading is true exactly while the request is in flight, so it is
\* false again once the request has settled either way.
C30_GetRealPredictions ==
    [][/\ (page.request = <<>> /\ page'.request # <<>>)
            => page.isBackendAvailable
       /\ page'.isLoading <=> page'.request # <<>>
       /\ (page.request # <<>> /\ page'.request = <<>>)
            => /\ ~page'.isLoading
               /\ page'.toast = "Prediction Failed"
                    => page'.currentPrediction = page.currentPrediction]_vars

\* C23: every POST /predict request carries a symbol and a whole number of
\* days that is at least 1, is one of the timeframes the view offers, and is
\* the timeframe selected at the moment the request is started.
C23_RequestTimeframe ==
    [][/\ (Len(passes') = Len(passes) + 1) =>
            \A j \in 1..Len(passes'[Len(passes')].tasks) :
                LET request == passes'[Len(passes')].tasks[j].request
                IN  /\ DOMAIN request = {"symbol", "timeframe"}
                    /\ request.timeframe \in {1, 7, 14, 30, 90}
                    /\ request.timeframe >= 1
                    /\ request.timeframe = selectedTimeframe'
       /\ (page.request = <<>> /\ page'.request # <<>>) =>
            /\ DOMAIN page'.request[1] = {"symbol", "timeframe"}
            /\ page'.request[1].timeframe \in {1, 7, 30, 90}
            /\ page'.request[1].timeframe >= 1
            /\ page'.request[1].timeframe = parseInt(withoutD(page'.timeframe))]_vars

\* C26: user and token are both set or both null in every state of the
\* session, whatever the order of restore, verification, login, register and
\* logout (so a verification that answers after logout sets no user).
C26_UserAndTokenTogether == (auth.user = <<>>) <=> (auth.token = <<>>)

\* C27: when the verification of the token restored at mount fails or reports
\* the token invalid after a login or register has put a newer session in
\* place, the user, the token and the stored credentials stay as they are.
C27_LoginOutlivesVerification ==
    [][(/\ auth.verifying # <<>>
        /\ auth'.verifying = <<>>
        /\ auth'.verified \in {"invalid", "error"}
        /\ auth.token # <<>>
        /\ auth.token # auth.verifying)
           => /\ auth'.user = auth.user
              /\ auth'.token = auth.token
              /\ auth'.storage = auth.storage]_vars

\* C28: a login or register call that fails (response not ok, network error,
\* password confirmation that does not match) throws to its caller, leaves
\* user, token and the two stored keys as they were, and leaves isLoading
\* false.
C28_FailedCallChangesNothing ==
    [][auth'.thrown > auth.thrown
          => /\ auth'.user = auth.user
             /\ auth'.token = auth.token
             /\ auth'.storage = auth.storage
             /\ ~auth'.isLoading]_vars

\* a call has failed while a session was in place, and the session is there
C28_Witness ==
    /\ auth.thrown > 0
    /\ auth.user # <<>>
    /\ auth.token # <<>>
    /\ auth.storage # EmptyStorage
    /\ ~auth.isLoading

====
